---- MODULE Spec2Model ----
(***************************************************************************)
(* Model of the two command-line programs of the repository:               *)
(*   - src/utilities/demux/bcl2fastq.py   (the demux runner)               *)
(*   - src/utilities/aegea_launcher.py    (the launcher)                   *)
(* The programs share no runtime, so each has its own specification        *)
(* (SpecDemux, SpecLauncher) and the launcher's resource validator, a pure *)
(* function, has a third (SpecRange).  The variables of the programs a     *)
(* specification does not run stay at their idle values; SpecEither runs   *)
(* one program or the other, for the properties that speak of both.        *)
(*                                                                         *)
(* File names are sequences of tokens ("SampleA" \o "_R1_001.fastq.gz" is  *)
(* <<"SampleA", "_R1_001.fastq.gz">>): prefix tests, the glob and the      *)
(* regular expression of the reorganization are computed on the tokens.    *)
(* External commands are opaque: each invocation either exits 0 or raises. *)
(***************************************************************************)
EXTENDS Integers, Sequences, FiniteSets, TLC

VARIABLES
    \* ---- demux runner (bcl2fastq.py) ----
    pc,             \* position of the run
    dargs,          \* parsed arguments: star_structure, skip_undetermined
    log_file,       \* TRUE iff AWS_BATCH_JOB_ID is set (a log file exists)
    i,              \* index of the current retry loop
    invocations,    \* per external command: number of invocations
    failures,       \* per external command: number of failed invocations
    succeeded,      \* steps that completed, in order of completion
    sampler,        \* background resource sampler: "none", "running", "killed"
    files,          \* files under output_path: <<subdirectory, basename>>
    dirs,           \* subdirectories of output_path created by the run
    initial_files,  \* the files the demultiplexing binary produced
    remaining,      \* fastqgz_files not yet visited by the loop
    removed,        \* basenames deleted by the reorganization
    moved,          \* basenames moved by the reorganization
    warned,         \* basenames the reorganization logged a warning for
    error,          \* exception main raised, <<>> if none
    log_uploads,    \* number of times the log upload was issued
    exit_status,    \* "running", "ok" or "fail"
    \* ---- launcher (aegea_launcher.py) ----
    lpc,            \* position of the launcher
    argv,           \* the command line as given
    args,           \* the parsed namespace (args.ecr_image may be rewritten)
    env,            \* what the launcher finds: local script, S3 object, ...
    aegea_command,  \* the token list of the submission command
    uploads,        \* number of client.upload_file calls
    head_checks,    \* number of client.head_object calls
    logged,         \* command strings logged by "executing command"
    submitted,      \* command strings handed to the submission CLI
    lerror,         \* exception the launcher raised, "none" if none
    \* ---- resource validator (resource_range) ----
    rpc,            \* "idle", "input" or "done"
    rname,          \* which resource the validator was built for
    rvalue,         \* the integer the caller means
    rinput,         \* the input string s: a sign and a sequence of digits
    rresult         \* outcome of range_validator(s)

demuxVars == <<pc, dargs, log_file, i, invocations, failures, succeeded,
               sampler, files, dirs, initial_files, remaining, removed,
               moved, warned, error, log_uploads, exit_status>>
launcherVars == <<lpc, argv, args, env, aegea_command, uploads, head_checks,
                  logged, submitted, lerror>>
rangeVars == <<rpc, rname, rvalue, rinput, rresult>>
vars == <<demuxVars, launcherVars, rangeVars>>

None == "None"

----------------------------------------------------------------------------
(* The demux runner: src/utilities/demux/bcl2fastq.py                      *)

S3_RETRY == 5

\* Largest number of files the demultiplexing binary leaves in output_path.
MaxFiles == 3

R1 == "_R1_001.fastq.gz"
R2 == "_R2_001.fastq.gz"
I1 == "_I1_001.fastq.gz"

\* Basenames the demultiplexing binary may produce in output_path.
FileUniverse ==
    { <<"SampleA", R1>>, <<"SampleA", R2>>,
      <<"Undetermined", R1>>, <<"Undetermined", "_S0", I1>>,
      <<"SampleB", I1>>, <<"Undetermined", ".json">> }

Top == <<>>

\* os.path.basename of a path <<subdirectory, basename>>
Basename(path) == path[2]

\* str.startswith('Undetermined')
StartsWithUndetermined(name) == Len(name) > 0 /\ name[1] = "Undetermined"

\* Glob with the pattern '*': every entry directly under output_path.
GlobAll(fs) == { f \in fs : f[1] = Top }

\* glob.glob(os.path.join(output_path, '*fastq.gz')): the entries directly
\* under output_path whose name ends with fastq.gz
Glob(fs) ==
    { f \in fs : /\ f[1] = Top
                 /\ Len(f[2]) > 0
                 /\ f[2][Len(f[2])] \in {R1, R2, I1, ".fastq.gz"} }

\* re.match("(.+)(_R[12]_001.fastq.gz)", name): the positions where group 2
\* can start; group 1 needs at least one character before it.
MatchPositions(name) == { j \in 2..Len(name) : name[j] \in {R1, R2} }

ReMatch(name) == MatchPositions(name) # {}

\* m.group(1): (.+) is greedy, so group 2 starts at the last position.
Group1(name) ==
    LET j == CHOOSE k \in MatchPositions(name) :
                 \A l \in MatchPositions(name) : l <= k
    IN  SubSeq(name, 1, j - 1)

RetryOps == {"cp_sheet", "sync_bcl", "sync_fastq", "cp_reports"}
Commands == RetryOps \cup {"bcl2fastq", "ls_check", "ls_reports", "log_cp"}

\* NextStep with the output upload placed before the reorganization.
NextStepUploadFirst(step) ==
    CASE step = "setup"      -> "cp_sheet"
      [] step = "cp_sheet"   -> "sync_bcl"
      [] step = "sync_bcl"   -> "popen"
      [] step = "popen"      -> "bcl2fastq"
      [] step = "bcl2fastq"  -> "sync_fastq"
      [] step = "sync_fastq" -> "glob"
      [] step = "glob"       -> "reorg"
      [] step = "reorg"      -> "ls_check"
      [] step = "ls_check"   -> "ls_reports"
      [] step = "ls_reports" -> "cp_reports"
      [] step = "cp_reports" -> "kill"
      [] step = "kill"       -> "returned"

\* The statement that follows each step of main when the step succeeds.
NextStep(step) ==
    CASE step = "setup"      -> "cp_sheet"
      [] step = "cp_sheet"   -> "sync_bcl"
      [] step = "sync_bcl"   -> "popen"
      [] step = "popen"      -> "bcl2fastq"
      [] step = "bcl2fastq"  -> "glob"
      [] step = "glob"       -> "reorg"
      [] step = "reorg"      -> "sync_fastq"
      [] step = "sync_fastq" -> "ls_check"
      [] step = "ls_check"   -> "ls_reports"
      [] step = "ls_reports" -> "cp_reports"
      [] step = "cp_reports" -> "kill"
      [] step = "kill"       -> "returned"

\* The message of the RuntimeError each retry loop raises in its else clause:
\* the text, then the paths formatted into it.
EscalatedError(op) ==
    CASE op = "cp_sheet"   -> <<"couldn't download sample sheet",
                                "s3_sample_sheet_dir/sample_sheet_name">>
      [] op = "sync_bcl"   -> <<"couldn't sync", "s3_input_dir/exp_id">>
      [] op = "sync_fastq" -> <<"couldn't sync fastqs">>
      [] op = "cp_reports" -> <<"couldn't cp reports">>

InitDemux ==
    /\ pc = "setup"
    /\ dargs \in [star_structure : BOOLEAN, skip_undetermined : BOOLEAN]
    /\ log_file \in BOOLEAN
    /\ i = 0
    /\ invocations = [c \in Commands |-> 0]
    /\ failures = [c \in Commands |-> 0]
    /\ succeeded = <<>>
    /\ sampler = "none"
    /\ initial_files \in { S \in SUBSET FileUniverse : Cardinality(S) <= MaxFiles }
    /\ files = {}
    /\ dirs = {}
    /\ remaining = {}
    /\ removed = {}
    /\ moved = {}
    /\ warned = {}
    /\ error = <<>>
    /\ log_uploads = 0
    /\ exit_status = "running"
    \* the launcher and the validator are not running
    /\ lpc = "idle" /\ argv = None /\ args = None /\ env = None
    /\ aegea_command = <<>> /\ uploads = 0 /\ head_checks = 0
    /\ logged = <<>> /\ submitted = <<>> /\ lerror = "none"
    /\ rpc = "idle" /\ rname = None /\ rvalue = 0 /\ rinput = <<>>
    /\ rresult = None

\* An exception leaves main: nothing after the raising statement runs.
Raise(exc) ==
    /\ pc' = "raised"
    /\ error' = exc

Invoke(cmd, ok) ==
    /\ invocations' = [invocations EXCEPT ![cmd] = @ + 1]
    /\ failures' = [failures EXCEPT ![cmd] = IF ok THEN @ ELSE @ + 1]

\* os.makedirs(result_path); os.mkdir(bcl_path)
Setup ==
    /\ pc = "setup"
    /\ \/ /\ pc' = NextStep("setup")
          /\ succeeded' = Append(succeeded, "setup")
          /\ error' = error
       \/ /\ Raise(<<"OSError">>)
          /\ succeeded' = succeeded
    /\ i' = 0
    /\ UNCHANGED <<dargs, log_file, invocations, failures, sampler, files,
                   dirs, initial_files, remaining, removed, moved, warned,
                   log_uploads, exit_status>>
    /\ UNCHANGED <<launcherVars, rangeVars>>

\* RetryLoop as "while True": the command is retried until it succeeds.
RetryLoopForever(op, ok) ==
    /\ pc = op
    /\ Invoke(op, ok)
    /\ IF ok
       THEN /\ pc' = NextStep(op)
            /\ i' = 0
            /\ succeeded' = Append(succeeded, op)
            /\ error' = error
       ELSE UNCHANGED <<pc, i, succeeded, error>>
    /\ UNCHANGED <<dargs, log_file, sampler, files, dirs, initial_files,
                   remaining, removed, moved, warned, log_uploads,
                   exit_status>>
    /\ UNCHANGED <<launcherVars, rangeVars>>

\* RetryLoop without the else clause of the for loop: after the last failed
\* attempt the run falls through to the next statement.
RetryLoopNoElse(op, ok) ==
    /\ pc = op
    /\ i < S3_RETRY
    /\ Invoke(op, ok)
    /\ IF ok \/ i + 1 >= S3_RETRY
       THEN /\ pc' = NextStep(op)
            /\ i' = 0
            /\ succeeded' = IF ok THEN Append(succeeded, op) ELSE succeeded
            /\ error' = error
       ELSE /\ i' = i + 1
            /\ UNCHANGED <<pc, succeeded, error>>
    /\ UNCHANGED <<dargs, log_file, sampler, files, dirs, initial_files,
                   remaining, removed, moved, warned, log_uploads,
                   exit_status>>
    /\ UNCHANGED <<launcherVars, rangeVars>>

\* for i in range(S3_RETRY): try: log_command(...); break
\*                           except CalledProcessError: logger.info(...)
\* else: raise RuntimeError(...)
\* One iteration of the loop; ok is the exit of the command.
RetryLoop(op, ok) ==
    /\ pc = op
    /\ i < S3_RETRY
    /\ Invoke(op, ok)
    /\ IF ok
       THEN /\ pc' = NextStep(op)
            /\ i' = 0
            /\ succeeded' = Append(succeeded, op)
            /\ error' = error
       ELSE IF i + 1 < S3_RETRY
            THEN /\ i' = i + 1
                 /\ UNCHANGED <<pc, succeeded, error>>
            ELSE /\ Raise(<<"RuntimeError">> \o EscalatedError(op))
                 /\ i' = i + 1
                 /\ succeeded' = succeeded
    /\ UNCHANGED <<dargs, log_file, sampler, files, dirs, initial_files,
                   remaining, removed, moved, warned, log_uploads,
                   exit_status>>
    /\ UNCHANGED <<launcherVars, rangeVars>>

\* The four retry-wrapped operations: the sample-sheet download, the
\* raw-data sync, the output upload and the report upload.
CpSheet ==
    /\ pc = "cp_sheet"
    /\ \E ok \in BOOLEAN : RetryLoop("cp_sheet", ok)
SyncBcl ==
    /\ pc = "sync_bcl"
    /\ \E ok \in BOOLEAN : RetryLoop("sync_bcl", ok)
SyncFastq ==
    /\ pc = "sync_fastq"
    /\ \E ok \in BOOLEAN : RetryLoop("sync_fastq", ok)
CpReports ==
    /\ pc = "cp_reports"
    /\ \E ok \in BOOLEAN : RetryLoop("cp_reports", ok)

\* reports_path is what check_output returned: a str under Python 2, bytes
\* under Python 3.  With bytes, ' '.join(command) in log_command raises
\* TypeError at the first iteration, before the command is run; the loop
\* catches CalledProcessError only.
CpReportsTypeError ==
    /\ pc = "cp_reports"
    /\ i = 0
    /\ Raise(<<"TypeError">>)
    /\ UNCHANGED <<dargs, log_file, i, invocations, failures, succeeded,
                   sampler, files, dirs, initial_files, remaining, removed,
                   moved, warned, log_uploads, exit_status>>
    /\ UNCHANGED <<launcherVars, rangeVars>>

\* p = subprocess.Popen([command], shell=True)
Popen ==
    /\ pc = "popen"
    /\ sampler' = "running"
    /\ pc' = NextStep("popen")
    /\ succeeded' = Append(succeeded, "popen")
    /\ UNCHANGED <<dargs, log_file, i, invocations, failures, files, dirs,
                   initial_files, remaining, removed, moved, warned, error,
                   log_uploads, exit_status>>
    /\ UNCHANGED <<launcherVars, rangeVars>>

\* A command run once through log_command / check_output: a non-zero exit
\* raises CalledProcessError out of main.
RunOnce(cmd, ok) ==
    /\ pc = cmd
    /\ Invoke(cmd, ok)
    /\ IF ok
       THEN /\ pc' = NextStep(cmd)
            /\ succeeded' = Append(succeeded, cmd)
            /\ error' = error
       ELSE /\ Raise(<<"CalledProcessError", cmd>>)
            /\ succeeded' = succeeded

\* Bcl2fastq wrapped in the retry loop of the S3 commands.
Bcl2fastqRetried ==
    /\ pc = "bcl2fastq"
    /\ \E ok \in BOOLEAN :
          /\ Invoke("bcl2fastq", ok)
          /\ IF ok
             THEN /\ pc' = NextStep("bcl2fastq")
                  /\ succeeded' = Append(succeeded, "bcl2fastq")
                  /\ error' = error
                  /\ files' = { <<Top, n>> : n \in initial_files }
             ELSE IF invocations["bcl2fastq"] + 1 < S3_RETRY
             THEN UNCHANGED <<pc, succeeded, error, files>>
             ELSE /\ Raise(<<"CalledProcessError", "bcl2fastq">>)
                  /\ UNCHANGED <<succeeded, files>>
    /\ UNCHANGED <<dargs, log_file, i, sampler, dirs, initial_files,
                   remaining, removed, moved, warned, log_uploads,
                   exit_status>>
    /\ UNCHANGED <<launcherVars, rangeVars>>

\* log_command(logger, [BCL2FASTQ, ...]): on success the binary has written
\* its files to output_path.
Bcl2fastq ==
    /\ \E ok \in BOOLEAN :
          /\ RunOnce("bcl2fastq", ok)
          /\ files' = IF ok THEN { <<Top, n>> : n \in initial_files } ELSE files
    /\ UNCHANGED <<dargs, log_file, i, sampler, dirs, initial_files,
                   remaining, removed, moved, warned, log_uploads,
                   exit_status>>
    /\ UNCHANGED <<launcherVars, rangeVars>>

\* fastqgz_files = glob.glob(os.path.join(output_path, '*fastq.gz'))
GlobFastq ==
    /\ pc = "glob"
    /\ remaining' = Glob(files)
    /\ pc' = NextStep("glob")
    /\ succeeded' = Append(succeeded, "glob")
    /\ UNCHANGED <<dargs, log_file, i, invocations, failures, sampler, files,
                   dirs, initial_files, removed, moved, warned, error,
                   log_uploads, exit_status>>
    /\ UNCHANGED <<launcherVars, rangeVars>>

\* ReorgFile that leaves files beginning with 'Undetermined' where they are
\* when only --star_structure is set.
ReorgFileKeepUndetermined(f) ==
    LET name == Basename(f) IN
    IF dargs.skip_undetermined /\ StartsWithUndetermined(name)
    THEN /\ files' = files \ {f}
         /\ removed' = removed \cup {name}
         /\ UNCHANGED <<dirs, moved, warned>>
    ELSE IF dargs.star_structure /\ ~StartsWithUndetermined(name)
    THEN IF ReMatch(name)
         THEN LET sample == Group1(name) IN
              /\ dirs' = dirs \cup {sample}
              /\ files' = (files \ {f}) \cup {<<sample, name>>}
              /\ moved' = moved \cup {name}
              /\ UNCHANGED <<removed, warned>>
         ELSE /\ warned' = warned \cup {name}
              /\ UNCHANGED <<files, dirs, removed, moved>>
    ELSE UNCHANGED <<files, dirs, removed, moved, warned>>

\* ReorgFile whose second branch is an else, not "elif args.star_structure".
ReorgFileAlwaysMove(f) ==
    LET name == Basename(f) IN
    IF dargs.skip_undetermined /\ StartsWithUndetermined(name)
    THEN /\ files' = files \ {f}
         /\ removed' = removed \cup {name}
         /\ UNCHANGED <<dirs, moved, warned>>
    ELSE IF ReMatch(name)
         THEN LET sample == Group1(name) IN
              /\ dirs' = dirs \cup {sample}
              /\ files' = (files \ {f}) \cup {<<sample, name>>}
              /\ moved' = moved \cup {name}
              /\ UNCHANGED <<removed, warned>>
         ELSE /\ warned' = warned \cup {name}
              /\ UNCHANGED <<files, dirs, removed, moved>>

\* ReorgFile that passes over a file the pattern does not match in silence.
ReorgFileNoWarning(f) ==
    LET name == Basename(f) IN
    IF dargs.skip_undetermined /\ StartsWithUndetermined(name)
    THEN /\ files' = files \ {f}
         /\ removed' = removed \cup {name}
         /\ UNCHANGED <<dirs, moved, warned>>
    ELSE IF dargs.star_structure /\ ReMatch(name)
    THEN LET sample == Group1(name) IN
         /\ dirs' = dirs \cup {sample}
         /\ files' = (files \ {f}) \cup {<<sample, name>>}
         /\ moved' = moved \cup {name}
         /\ UNCHANGED <<removed, warned>>
    ELSE UNCHANGED <<files, dirs, removed, moved, warned>>

\* The body of "for fastq_file in fastqgz_files" for one file.
ReorgFile(f) ==
    LET name == Basename(f) IN
    IF dargs.skip_undetermined /\ StartsWithUndetermined(name)
    THEN /\ files' = files \ {f}
         /\ removed' = removed \cup {name}
         /\ UNCHANGED <<dirs, moved, warned>>
    ELSE IF dargs.star_structure
    THEN IF ReMatch(name)
         THEN LET sample == Group1(name) IN
              /\ dirs' = dirs \cup {sample}
              /\ files' = (files \ {f}) \cup {<<sample, name>>}
              /\ moved' = moved \cup {name}
              /\ UNCHANGED <<removed, warned>>
         ELSE /\ warned' = warned \cup {name}
              /\ UNCHANGED <<files, dirs, removed, moved>>
    ELSE UNCHANGED <<files, dirs, removed, moved, warned>>

\* One iteration of the loop over fastqgz_files, in the order glob gave.
ReorgStep ==
    /\ pc = "reorg"
    /\ \E f \in remaining :
          /\ ReorgFile(f)
          /\ remaining' = remaining \ {f}
    /\ UNCHANGED <<pc, dargs, log_file, i, invocations, failures, succeeded,
                   sampler, initial_files, error, log_uploads, exit_status>>
    /\ UNCHANGED <<launcherVars, rangeVars>>

\* os.remove, os.mkdir or os.rename raises OSError out of main: possible
\* only at a file the loop body deletes or moves.
ReorgRaise ==
    /\ pc = "reorg"
    /\ \E f \in remaining :
          \/ dargs.skip_undetermined /\ StartsWithUndetermined(Basename(f))
          \/ dargs.star_structure /\ ReMatch(Basename(f))
    /\ Raise(<<"OSError">>)
    /\ UNCHANGED <<dargs, log_file, i, invocations, failures, succeeded,
                   sampler, files, dirs, initial_files, remaining, removed,
                   moved, warned, log_uploads, exit_status>>
    /\ UNCHANGED <<launcherVars, rangeVars>>

\* The loop is exhausted; sys.stdout.flush()
ReorgDone ==
    /\ pc = "reorg"
    /\ remaining = {}
    /\ pc' = NextStep("reorg")
    /\ i' = 0
    /\ succeeded' = Append(succeeded, "reorg")
    /\ UNCHANGED <<dargs, log_file, invocations, failures, sampler, files,
                   dirs, initial_files, remaining, removed, moved, warned,
                   error, log_uploads, exit_status>>
    /\ UNCHANGED <<launcherVars, rangeVars>>

\* log_command(logger, ['aws', 's3', 'ls', '--recursive', ...])
LsCheck ==
    /\ \E ok \in BOOLEAN : RunOnce("ls_check", ok)
    /\ UNCHANGED <<dargs, log_file, i, sampler, files, dirs, initial_files,
                   remaining, removed, moved, warned, log_uploads,
                   exit_status>>
    /\ UNCHANGED <<launcherVars, rangeVars>>

\* reports_path = subprocess.check_output("ls -d ...", shell=True).rstrip()
LsReports ==
    /\ \E ok \in BOOLEAN : RunOnce("ls_reports", ok)
    /\ i' = 0
    /\ UNCHANGED <<dargs, log_file, sampler, files, dirs, initial_files,
                   remaining, removed, moved, warned, log_uploads,
                   exit_status>>
    /\ UNCHANGED <<launcherVars, rangeVars>>

\* p.kill(), the last statement of main
Kill ==
    /\ pc = "kill"
    /\ sampler' = "killed"
    /\ pc' = NextStep("kill")
    /\ succeeded' = Append(succeeded, "kill")
    /\ UNCHANGED <<dargs, log_file, i, invocations, failures, files, dirs,
                   initial_files, remaining, removed, moved, warned, error,
                   log_uploads, exit_status>>
    /\ UNCHANGED <<launcherVars, rangeVars>>

\* Finally with the log upload after main(mainlogger) inside the try block:
\* it runs only when main returned.
FinallyOnlyOnReturn ==
    /\ pc \in {"returned", "raised"}
    /\ IF log_file /\ pc = "returned"
       THEN \E ok \in BOOLEAN :
               /\ Invoke("log_cp", ok)
               /\ log_uploads' = log_uploads + 1
               /\ exit_status' = IF ok THEN "ok" ELSE "fail"
       ELSE /\ UNCHANGED <<invocations, failures, log_uploads>>
            /\ exit_status' = IF pc = "returned" THEN "ok" ELSE "fail"
    /\ pc' = "exit"
    /\ UNCHANGED <<dargs, log_file, i, succeeded, sampler, files, dirs,
                   initial_files, remaining, removed, moved, warned, error>>
    /\ UNCHANGED <<launcherVars, rangeVars>>

\* try: main(mainlogger)  except: log; raise
\* finally: if log_file: ... subprocess.check_output(log_cmd, shell=True)
Finally ==
    /\ pc \in {"returned", "raised"}
    /\ IF log_file
       THEN \E ok \in BOOLEAN :
               /\ Invoke("log_cp", ok)
               /\ log_uploads' = log_uploads + 1
               /\ exit_status' = IF ok /\ pc = "returned" THEN "ok" ELSE "fail"
       ELSE /\ UNCHANGED <<invocations, failures, log_uploads>>
            /\ exit_status' = IF pc = "returned" THEN "ok" ELSE "fail"
    /\ pc' = "exit"
    /\ UNCHANGED <<dargs, log_file, i, succeeded, sampler, files, dirs,
                   initial_files, remaining, removed, moved, warned, error>>
    /\ UNCHANGED <<launcherVars, rangeVars>>

NextDemux ==
    \/ Setup
    \/ CpSheet
    \/ SyncBcl
    \/ Popen
    \/ Bcl2fastq
    \/ GlobFastq
    \/ ReorgStep
    \/ ReorgRaise
    \/ ReorgDone
    \/ SyncFastq
    \/ LsCheck
    \/ LsReports
    \/ CpReports
    \/ CpReportsTypeError
    \/ Kill
    \/ Finally

SpecDemux ==
    InitDemux /\ [][NextDemux]_vars

----------------------------------------------------------------------------
(* The launcher: src/utilities/aegea_launcher.py                           *)

\* Truth value of a Python object used as a condition: None and the empty
\* string are false.  An absent list (None) is modelled as <<>> and an absent
\* number (None) as 0, which have the same truth value.
Truthy(x) == x # None /\ x # ""
TruthyList(l) == l # <<>>
TruthyInt(n) == n # 0

\* ' '.join(tokens)
RECURSIVE Join(_)
Join(tokens) ==
    IF tokens = <<>> THEN ""
    ELSE IF Len(tokens) = 1 THEN tokens[1]
    ELSE tokens[1] \o " " \o Join(Tail(tokens))

\* The command lines the model draws from.
ArgvSpace ==
    [ s3_script_path : {<<"my_bucket", "my_scripts">>},
      script_name    : {"bcl2fastq.py"},
      script_args    : {"--exp_id X"},
      ecr_image      : {None, "", "my_image"},
      ami            : {None, "", "my_ami"},
      queue          : {"aegea_batch"},
      vcpus          : {1, 64},
      memory         : {4000},
      storage        : {0, 500},
      ulimits        : {<<>>, <<"nofile:1000000">>},
      environment    : {<<>>, <<"A=1", "B=2">>},
      dryrun         : BOOLEAN,
      upload         : BOOLEAN,
      testargs       : BOOLEAN ]

InitLauncher ==
    /\ lpc = "parse_args"
    /\ argv \in ArgvSpace
    /\ args = argv
    /\ env \in [script_exists : BOOLEAN, on_s3 : BOOLEAN]
    /\ aegea_command = <<>>
    /\ uploads = 0
    /\ head_checks = 0
    /\ logged = <<>>
    /\ submitted = <<>>
    /\ lerror = "none"
    \* the demux runner and the validator are not running
    /\ pc = "idle" /\ dargs = None /\ log_file = FALSE /\ i = 0
    /\ invocations = <<>> /\ failures = <<>> /\ succeeded = <<>>
    /\ sampler = "none" /\ files = {} /\ dirs = {} /\ initial_files = {}
    /\ remaining = {} /\ removed = {} /\ moved = {} /\ warned = {}
    /\ error = <<>> /\ log_uploads = 0 /\ exit_status = "running"
    /\ rpc = "idle" /\ rname = None /\ rvalue = 0 /\ rinput = <<>>
    /\ rresult = None

\* An exception (or argparse's exit) ends the launcher.
LRaise(exc) ==
    /\ lpc' = "exit"
    /\ lerror' = exc

\* args = parser.parse_args(): --ecr-image and --ami are in a mutually
\* exclusive group, so a command line that gives both is rejected.
ParseArgs ==
    /\ lpc = "parse_args"
    /\ IF argv.ecr_image # None /\ argv.ami # None
       THEN LRaise("argparse: not allowed with argument")
       ELSE lpc' = "default_image" /\ lerror' = lerror
    /\ UNCHANGED <<argv, args, env, aegea_command, uploads, head_checks,
                   logged, submitted>>
    /\ UNCHANGED <<demuxVars, rangeVars>>

\* DefaultImageOf that leaves the namespace as parsed.
DefaultImageOmitted(a) == a

\* if not args.ecr_image or args.ami: args.ecr_image = 'sra_download'
DefaultImageOf(a) ==
    IF ~Truthy(a.ecr_image) \/ Truthy(a.ami)
    THEN [a EXCEPT !.ecr_image = "sra_download"]
    ELSE a

DefaultImage ==
    /\ lpc = "default_image"
    /\ args' = DefaultImageOf(args)
    /\ lpc' = "transfer"
    /\ UNCHANGED <<argv, env, aegea_command, uploads, head_checks, logged,
                   submitted, lerror>>
    /\ UNCHANGED <<demuxVars, rangeVars>>

\* Upload without the "if not args.dryrun" guard.
UploadAlways ==
    /\ lpc = "transfer"
    /\ args.upload
    /\ IF ~env.script_exists
       THEN /\ LRaise("ValueError: Can't find script")
            /\ UNCHANGED <<uploads, env>>
       ELSE /\ uploads' = uploads + 1
            /\ \/ /\ lpc' = "testargs" /\ lerror' = lerror
                  /\ env' = [env EXCEPT !.on_s3 = TRUE]
               \/ LRaise("upload_file failed") /\ env' = env
    /\ UNCHANGED <<argv, args, aegea_command, head_checks, logged,
                   submitted>>
    /\ UNCHANGED <<demuxVars, rangeVars>>

\* if args.upload: ... client.upload_file(...) unless args.dryrun; after a
\* successful upload the script object is on S3.
Upload ==
    /\ lpc = "transfer"
    /\ args.upload
    /\ IF ~env.script_exists
       THEN /\ LRaise("ValueError: Can't find script")
            /\ UNCHANGED <<uploads, env>>
       ELSE IF args.dryrun
       THEN /\ lpc' = "testargs"
            /\ UNCHANGED <<uploads, lerror, env>>
       ELSE /\ uploads' = uploads + 1
            /\ \/ /\ lpc' = "testargs" /\ lerror' = lerror
                  /\ env' = [env EXCEPT !.on_s3 = TRUE]
               \/ LRaise("upload_file failed") /\ env' = env
    /\ UNCHANGED <<argv, args, aegea_command, head_checks, logged,
                   submitted>>
    /\ UNCHANGED <<demuxVars, rangeVars>>

\* HeadObject whose ClientError is swallowed.
HeadObjectUnchecked ==
    /\ lpc = "transfer"
    /\ ~args.upload
    /\ head_checks' = head_checks + 1
    /\ lpc' = "testargs" /\ lerror' = lerror
    /\ UNCHANGED <<argv, args, env, aegea_command, uploads, logged,
                   submitted>>
    /\ UNCHANGED <<demuxVars, rangeVars>>

\* else: client.head_object(...); ClientError (no such object) becomes a
\* ValueError
HeadObject ==
    /\ lpc = "transfer"
    /\ ~args.upload
    /\ head_checks' = head_checks + 1
    /\ IF env.on_s3
       THEN lpc' = "testargs" /\ lerror' = lerror
       ELSE LRaise("ValueError: not on s3, you should upload it")
    /\ UNCHANGED <<argv, args, env, aegea_command, uploads, logged,
                   submitted>>
    /\ UNCHANGED <<demuxVars, rangeVars>>

\* if args.testargs: import the script, get its parser, parse script_args
TestArgs ==
    /\ lpc = "testargs"
    /\ IF ~args.testargs
       THEN lpc' = "assemble" /\ lerror' = lerror
       ELSE IF ~env.script_exists
       THEN LRaise("ValueError: Can't find script")
       ELSE \E has_get_parser \in BOOLEAN, parse_ok \in BOOLEAN :
               IF ~has_get_parser
               THEN LRaise("ValueError: no 'get_parser' method")
               ELSE IF ~parse_ok
               THEN LRaise("script_parser.parse_args failed")
               ELSE lpc' = "assemble" /\ lerror' = lerror
    /\ UNCHANGED <<argv, args, env, aegea_command, uploads, head_checks,
                   logged, submitted>>
    /\ UNCHANGED <<demuxVars, rangeVars>>

\* os.path.basename(args.script_name)
ScriptBase(a) == a.script_name

\* s3_bucket and s3_key joined: os.path.join(s3_bucket, s3_key)
S3Object(a) ==
    a.s3_script_path[1] \o "/" \o a.s3_script_path[2] \o "/" \o ScriptBase(a)

\* job_command = "aws s3 cp s3://{} .; chmod 755 {}; ./{} {}".format(...)
JobCommand(a) ==
    "aws s3 cp s3://" \o S3Object(a) \o " .; chmod 755 " \o ScriptBase(a)
        \o "; ./" \o ScriptBase(a) \o " " \o a.script_args

\* The image selector of the command:
\* if args.ecr_image: ... elif args.ami: ...
ImageSelector(a) ==
    IF Truthy(a.ecr_image) THEN <<"--ecr-image", a.ecr_image>>
    ELSE IF Truthy(a.ami) THEN <<"--ami", a.ami>>
    ELSE <<>>

\* aegea_command as built from the namespace
AegeaCommand(a) ==
    <<"aegea", "batch", "submit",
      "--queue", a.queue,
      "--vcpus", ToString(a.vcpus),
      "--memory", ToString(a.memory)>>
    \o ImageSelector(a)
    \o (IF TruthyInt(a.storage)
        THEN <<"--storage", "/mnt=" \o ToString(a.storage)>> ELSE <<>>)
    \o (IF TruthyList(a.ulimits)
        THEN <<"--ulimits", Join(a.ulimits)>> ELSE <<>>)
    \o (IF TruthyList(a.environment)
        THEN <<"--environment", Join(a.environment)>> ELSE <<>>)
    \o <<"--command", "\"" \o JobCommand(a) \o "\"">>

Assemble ==
    /\ lpc = "assemble"
    /\ aegea_command' = AegeaCommand(args)
    /\ lpc' = "log_command"
    /\ UNCHANGED <<argv, args, env, uploads, head_checks, logged, submitted,
                   lerror>>
    /\ UNCHANGED <<demuxVars, rangeVars>>

\* logger.info('executing command:\n\t{}'.format(' '.join(aegea_command)))
LogCommand ==
    /\ lpc = "log_command"
    /\ logged' = Append(logged, Join(aegea_command))
    /\ lpc' = "submit"
    /\ UNCHANGED <<argv, args, env, aegea_command, uploads, head_checks,
                   submitted, lerror>>
    /\ UNCHANGED <<demuxVars, rangeVars>>

\* Submit without the "if not args.dryrun" guard.
SubmitAlways ==
    /\ lpc = "submit"
    /\ submitted' = Append(submitted, Join(aegea_command))
    /\ \/ lpc' = "done" /\ lerror' = lerror
       \/ LRaise("CalledProcessError: aegea")
    /\ UNCHANGED <<argv, args, env, aegea_command, uploads, head_checks,
                   logged>>
    /\ UNCHANGED <<demuxVars, rangeVars>>

\* if not args.dryrun: output = json.loads(subprocess.check_output(...))
Submit ==
    /\ lpc = "submit"
    /\ IF args.dryrun
       THEN /\ lpc' = "done"
            /\ UNCHANGED <<submitted, lerror>>
       ELSE /\ submitted' = Append(submitted, Join(aegea_command))
            /\ \/ lpc' = "done" /\ lerror' = lerror
               \/ LRaise("CalledProcessError: aegea")
    /\ UNCHANGED <<argv, args, env, aegea_command, uploads, head_checks,
                   logged>>
    /\ UNCHANGED <<demuxVars, rangeVars>>

NextLauncher ==
    \/ ParseArgs
    \/ DefaultImage
    \/ Upload
    \/ HeadObject
    \/ TestArgs
    \/ Assemble
    \/ LogCommand
    \/ Submit

SpecLauncher ==
    InitLauncher /\ [][NextLauncher]_vars

\* Either program, run on its own: the specification of the properties that
\* speak of both.
InitEither == InitDemux \/ InitLauncher

NextEither == NextDemux \/ NextLauncher

SpecEither == InitEither /\ [][NextEither]_vars

----------------------------------------------------------------------------
(* The launcher's resource validator: resource_range                       *)

\* How far around each bound of a range the inputs are drawn.
Margin == 2

\* The validators the parser builds: resource_range(name, min, max)
ResourceRange(name) ==
    CASE name = "vcpus"   -> [min_val |-> 1, max_val |-> 64]
      [] name = "memory"  -> [min_val |-> 0, max_val |-> 256000]
      [] name = "storage" -> [min_val |-> 500, max_val |-> 16000]

DigitChars == <<"0", "1", "2", "3", "4", "5", "6", "7", "8", "9">>

DigitValue(c) == (CHOOSE k \in 1..10 : DigitChars[k] = c) - 1

\* int(s) on a string of decimal digits
RECURSIVE NatOf(_)
NatOf(d) ==
    IF d = <<>> THEN 0
    ELSE 10 * NatOf(SubSeq(d, 1, Len(d) - 1)) + DigitValue(d[Len(d)])

\* int(s): an optional sign, then decimal digits
IntOf(s) ==
    IF s[1] = "-" THEN 0 - NatOf(Tail(s))
    ELSE IF s[1] = "+" THEN NatOf(Tail(s))
    ELSE NatOf(s)

\* The decimal digits of a natural number.
RECURSIVE Decimal(_)
Decimal(n) ==
    IF n < 10 THEN <<DigitChars[n + 1]>>
    ELSE Decimal(n \div 10) \o <<DigitChars[(n % 10) + 1]>>

\* Ways a caller may write the integer v on the command line.
Spellings(v) ==
    IF v < 0
    THEN { <<"-">> \o Decimal(0 - v), <<"-", "0">> \o Decimal(0 - v) }
    ELSE { Decimal(v), <<"+">> \o Decimal(v), <<"0">> \o Decimal(v) }

\* The integers the inputs denote: around both bounds of the range.
TestValues(name) ==
    LET r == ResourceRange(name) IN
    ((r.min_val - Margin)..(r.min_val + Margin))
        \cup ((r.max_val - Margin)..(r.max_val + Margin))

Pending == [status |-> "pending", value |-> 0, msg |-> ""]

\* range_validator with "value >= max_val" as the upper test.
RangeValidatorExclusiveMax(name, min_val, max_val, s) ==
    LET value == IntOf(s) IN
    IF value < min_val
    THEN [status |-> "ArgumentTypeError", value |-> 0,
          msg |-> name \o " must be at least"]
    ELSE IF value >= max_val
    THEN [status |-> "ArgumentTypeError", value |-> 0,
          msg |-> name \o " can be at most"]
    ELSE [status |-> "returned", value |-> value, msg |-> ""]

\* range_validator(s) of resource_range(name, min_val, max_val); the format
\* strings have one placeholder, so the messages carry the name only.
RangeValidator(name, min_val, max_val, s) ==
    LET value == IntOf(s) IN
    IF value < min_val
    THEN [status |-> "ArgumentTypeError", value |-> 0,
          msg |-> name \o " must be at least"]
    ELSE IF value > max_val
    THEN [status |-> "ArgumentTypeError", value |-> 0,
          msg |-> name \o " can be at most"]
    ELSE [status |-> "returned", value |-> value, msg |-> ""]

InitRange ==
    /\ rpc = "input"
    /\ rname \in {"vcpus", "memory", "storage"}
    /\ rvalue \in TestValues(rname)
    /\ rinput \in Spellings(rvalue)
    /\ rresult = Pending
    \* the demux runner and the launcher are not running
    /\ pc = "idle" /\ dargs = None /\ log_file = FALSE /\ i = 0
    /\ invocations = <<>> /\ failures = <<>> /\ succeeded = <<>>
    /\ sampler = "none" /\ files = {} /\ dirs = {} /\ initial_files = {}
    /\ remaining = {} /\ removed = {} /\ moved = {} /\ warned = {}
    /\ error = <<>> /\ log_uploads = 0 /\ exit_status = "running"
    /\ lpc = "idle" /\ argv = None /\ args = None /\ env = None
    /\ aegea_command = <<>> /\ uploads = 0 /\ head_checks = 0
    /\ logged = <<>> /\ submitted = <<>> /\ lerror = "none"

\* argparse applies the validator of the option to the string given for it.
Validate ==
    /\ rpc = "input"
    /\ rresult' = RangeValidator(rname, ResourceRange(rname).min_val,
                                 ResourceRange(rname).max_val, rinput)
    /\ rpc' = "done"
    /\ UNCHANGED <<rname, rvalue, rinput>>
    /\ UNCHANGED <<demuxVars, launcherVars>>

NextRange == Validate

SpecRange == InitRange /\ [][NextRange]_vars

----------------------------------------------------------------------------
(* Properties of the demux runner                                          *)

Completed(step) == \E k \in 1..Len(succeeded) : succeeded[k] = step

Escalated(op) == error = <<"RuntimeError">> \o EscalatedError(op)

\* Name tests written from the wording of the claims, not from the code.
IsFastqGz(name) == name[Len(name)] \in {R1, R2, I1, ".fastq.gz"}
IsReadFile(name) == Len(name) >= 2 /\ name[Len(name)] \in {R1, R2}
SampleOf(name) == SubSeq(name, 1, Len(name) - 1)
AtTop(name) == <<Top, name>> \in files
Present(name) == \E f \in files : f[2] = name

\* C1: each retry-wrapped operation that succeeds did so after exactly
\* (failures + 1) invocations with fewer than 5 failures, and the run went
\* on; an operation whose command failed at every attempt was invoked
\* exactly 5 times and then raised its escalated error, and the escalated
\* error is raised in no other case.
C1_RetryCounts ==
    \A op \in RetryOps :
        /\ invocations[op] <= S3_RETRY
        /\ Completed(op) =>
              /\ failures[op] < S3_RETRY
              /\ invocations[op] = failures[op] + 1
              /\ ~Escalated(op)
        /\ (pc = op) =>
              /\ invocations[op] = failures[op]
              /\ failures[op] < S3_RETRY
        /\ (pc # op /\ invocations[op] > 0 /\ ~Completed(op)) =>
              /\ invocations[op] = S3_RETRY
              /\ failures[op] = S3_RETRY
              /\ Escalated(op)
        /\ Escalated(op) => invocations[op] = S3_RETRY /\ ~Completed(op)

\* A run where the sample-sheet download succeeded at its fifth attempt and
\* the output upload failed five times.
C1_Witness ==
    /\ Completed("cp_sheet") /\ failures["cp_sheet"] = 4
    /\ invocations["cp_sheet"] = 5
    /\ Escalated("sync_fastq") /\ invocations["sync_fastq"] = 5

\* C2: no run exits with the resource sampler still running.
C2_SamplerTerminated == pc = "exit" => sampler # "running"

\* C3: when a log file exists, the log upload has been issued exactly once
\* when the process exits, whether main returned or raised, and it is never
\* issued before main has ended; without a log file it is never issued.
C3_LogUploaded ==
    /\ (pc = "exit" /\ log_file) => log_uploads = 1
    /\ (pc # "exit") => log_uploads = 0
    /\ ~log_file => log_uploads = 0
    /\ log_uploads = invocations["log_cp"]

\* A run with a log file whose main raised, after the upload.
C3_Witness ==
    pc = "exit" /\ log_file /\ error # <<>> /\ log_uploads = 1

\* C6 as claimed: with --star_structure only, after the reorganization the
\* read files of real samples are in <sample>/ and every file beginning with
\* 'Undetermined' is still at the top level of the output directory.
C6_UndeterminedUntouched ==
    (Completed("reorg") /\ dargs.star_structure /\ ~dargs.skip_undetermined) =>
        \A n \in initial_files :
            IF StartsWithUndetermined(n)
            THEN AtTop(n)
            ELSE IsReadFile(n) => <<SampleOf(n), n>> \in files

\* C6 as amended: with --star_structure only, after the reorganization every
\* file named <sample>_R1_001.fastq.gz or <sample>_R2_001.fastq.gz, those
\* beginning with 'Undetermined' included, is in the subdirectory <sample>/
\* and no longer at the top level; every other file is still at the top level.
C6_StarStructure ==
    (Completed("reorg") /\ dargs.star_structure /\ ~dargs.skip_undetermined) =>
        /\ removed = {}
        /\ \A n \in initial_files :
              IF IsReadFile(n)
              THEN /\ <<SampleOf(n), n>> \in files
                   /\ SampleOf(n) \in dirs
                   /\ ~AtTop(n)
              ELSE AtTop(n)

\* The three files of the example, reorganized with --star_structure only.
C6_Witness ==
    /\ Completed("reorg")
    /\ dargs.star_structure /\ ~dargs.skip_undetermined
    /\ initial_files = { <<"SampleA", R1>>, <<"SampleA", R2>>,
                         <<"Undetermined", R1>> }
    /\ <<<<"Undetermined">>, <<"Undetermined", R1>>>> \in files

\* C7: with --skip_undetermined only, after the reorganization every
\* fastq.gz file beginning with 'Undetermined' is gone, every other file is
\* where it was, and no subdirectory has been created.
C7_SkipUndetermined ==
    (Completed("reorg") /\ dargs.skip_undetermined /\ ~dargs.star_structure) =>
        /\ dirs = {}
        /\ \A n \in initial_files :
              IF IsFastqGz(n) /\ StartsWithUndetermined(n)
              THEN ~Present(n)
              ELSE AtTop(n)
        /\ \A f \in files : f[1] = Top /\ f[2] \in initial_files

\* A run with --skip_undetermined only that deleted an Undetermined read
\* file and kept a sample's read file and an Undetermined file that is not
\* a fastq.gz.
C7_Witness ==
    /\ Completed("reorg")
    /\ dargs.skip_undetermined /\ ~dargs.star_structure
    /\ <<"Undetermined", R1>> \in initial_files
    /\ <<"Undetermined", R1>> \in removed
    /\ AtTop(<<"SampleA", R1>>)
    /\ AtTop(<<"Undetermined", ".json">>)

\* C8 as claimed: no run both deletes a file and moves a file.
C8_OneTransformPerRun == ~(removed # {} /\ moved # {})

\* C8 as amended: each file undergoes at most one of the two transforms;
\* files are deleted only with --skip_undetermined and moved only with
\* --star_structure, so a run applies both transforms only when both flags
\* are set.
C8_OneTransformPerFile ==
    /\ removed \cap moved = {}
    /\ removed # {} => dargs.skip_undetermined
    /\ moved # {} => dargs.star_structure
    /\ \A n \in removed : ~Present(n)
    /\ \A n \in moved : Present(n) /\ ~AtTop(n)

\* A run with both flags that deleted one file and moved another.
C8_Witness ==
    /\ dargs.skip_undetermined /\ dargs.star_structure
    /\ removed # {} /\ moved # {}
    /\ pc = "exit"

----------------------------------------------------------------------------
(* Properties of the launcher                                              *)

\* C4: a run with --testargs whose script has no get_parser fails before
\* any script upload and before any job submission.
C4_FailsBeforeUpload ==
    lerror = "ValueError: no 'get_parser' method" =>
        uploads = 0 /\ submitted = <<>>

\* C5: a dry run never invokes the submission CLI, and the command string
\* it logs is the one a run with the same command line without --dryrun
\* submits: such a run submits exactly the string it logs, and the string
\* built for a command line does not depend on --dryrun.
C5_DryRun ==
    /\ argv.dryrun => submitted = <<>>
    /\ (argv.dryrun /\ logged # <<>>) =>
          logged = << Join(AegeaCommand(
                        DefaultImageOf([argv EXCEPT !.dryrun = FALSE]))) >>
    /\ (~argv.dryrun /\ submitted # <<>>) =>
          /\ submitted = logged
          /\ submitted = << Join(AegeaCommand(DefaultImageOf(argv))) >>
    /\ Len(logged) <= 1

\* A dry run that reached its end and logged the command.
C5_Witness ==
    lpc = "done" /\ argv.dryrun /\ Len(logged) = 1 /\ submitted = <<>>

\* The places of the image selector flags in a command.
Selectors(cmd) == { k \in 1..Len(cmd) : cmd[k] \in {"--ecr-image", "--ami"} }

\* C10: every assembled submission command carries exactly one image
\* selector, and when neither --ecr-image nor --ami is given it is
\* --ecr-image sra_download.
C10_OneImageSelector ==
    aegea_command # <<>> =>
        /\ Cardinality(Selectors(aegea_command)) = 1
        /\ (argv.ecr_image = None /\ argv.ami = None) =>
              \A k \in Selectors(aegea_command) :
                  /\ aegea_command[k] = "--ecr-image"
                  /\ aegea_command[k + 1] = "sra_download"

\* A command assembled for a command line that names no image.
C10_Witness ==
    /\ aegea_command # <<>>
    /\ argv.ecr_image = None /\ argv.ami = None
    /\ Cardinality(Selectors(aegea_command)) = 1

----------------------------------------------------------------------------
(* Properties of the resource validator                                    *)

\* The ranges as the claim states them.
ClaimedMin(name) ==
    CASE name = "vcpus" -> 1 [] name = "memory" -> 0 [] name = "storage" -> 500
ClaimedMax(name) ==
    CASE name = "vcpus" -> 64 [] name = "memory" -> 256000
      [] name = "storage" -> 16000

\* C9: the validator returns v exactly when min <= v <= max and raises an
\* argument error for every v < min and every v > max.
C9_RangeValidator ==
    rpc = "done" =>
        IF ClaimedMin(rname) <= rvalue /\ rvalue <= ClaimedMax(rname)
        THEN rresult.status = "returned" /\ rresult.value = rvalue
        ELSE rresult.status = "ArgumentTypeError"

\* The validator of --storage applied to the largest value it admits.
C9_Witness ==
    /\ rpc = "done" /\ rname = "storage" /\ rvalue = 16000
    /\ rresult.status = "returned"

----------------------------------------------------------------------------
(* Further properties of the launcher                                      *)

\* The flag followed by the value somewhere in the command.
Carries(cmd, flag, value) ==
    \E k \in 1..(Len(cmd) - 1) : cmd[k] = flag /\ cmd[k + 1] = value

HasFlag(cmd, flag) == \E k \in 1..Len(cmd) : cmd[k] = flag

\* C11: the assembled command carries the image selector the user chose:
\* --ami A (and no --ecr-image) for a command line with --ami A, and
\* --ecr-image I (and no --ami) for a command line with --ecr-image I.
C11_SelectorAsChosen ==
    aegea_command # <<>> =>
        /\ (argv.ami \notin {None, ""} /\ argv.ecr_image = None) =>
              /\ Carries(aegea_command, "--ami", argv.ami)
              /\ ~HasFlag(aegea_command, "--ecr-image")
        /\ (argv.ecr_image \notin {None, ""} /\ argv.ami = None) =>
              /\ Carries(aegea_command, "--ecr-image", argv.ecr_image)
              /\ ~HasFlag(aegea_command, "--ami")

\* C17: a job is submitted only when the script is on object storage.
\* Without --upload the object is looked up first and a missing object ends
\* the run with no submission; with --upload a missing local script ends
\* the run with no upload and no submission.
C17_SubmitOnlyIfOnS3 ==
    lpc # "idle" =>
        /\ submitted # <<>> =>
              /\ env.on_s3
              /\ IF argv.upload
                 THEN uploads = 1 /\ env.script_exists /\ head_checks = 0
                 ELSE head_checks = 1 /\ uploads = 0
        /\ (~argv.upload /\ head_checks > 0 /\ ~env.on_s3) =>
              /\ lerror = "ValueError: not on s3, you should upload it"
              /\ lpc = "exit"
              /\ submitted = <<>>
        /\ (argv.upload /\ ~env.script_exists
                /\ lpc \notin {"parse_args", "default_image", "transfer"}) =>
              /\ lerror \in {"ValueError: Can't find script",
                             "argparse: not allowed with argument"}
              /\ lpc = "exit"
              /\ uploads = 0
              /\ submitted = <<>>

\* A run without --upload that found no script object and stopped.
C17_Witness ==
    /\ lpc = "exit" /\ ~argv.upload /\ ~argv.dryrun
    /\ head_checks = 1 /\ ~env.on_s3
    /\ lerror = "ValueError: not on s3, you should upload it"

\* C18: a dry run performs no state-changing remote action: the script is
\* not uploaded, with --upload too, and no job is submitted.
C18_DryRunNoRemoteChange ==
    (lpc # "idle" /\ argv.dryrun) =>
        /\ uploads = 0
        /\ submitted = <<>>
        /\ lerror # "upload_file failed"

\* A dry run with --upload of an existing script that reached its end.
C18_Witness ==
    /\ lpc = "done" /\ argv.dryrun /\ argv.upload /\ env.script_exists
    /\ uploads = 0 /\ Len(logged) = 1

----------------------------------------------------------------------------
(* Further properties of the demux runner                                  *)

\* The steps of the pipeline in the order the claims give them.
PipelineOrder ==
    <<"cp_sheet", "sync_bcl", "popen", "bcl2fastq", "glob", "reorg",
      "sync_fastq", "ls_check", "ls_reports", "cp_reports", "kill">>

Position(step) == CHOOSE k \in 1..Len(PipelineOrder) : PipelineOrder[k] = step

LaterSteps(step) ==
    { PipelineOrder[k] : k \in (Position(step) + 1)..Len(PipelineOrder) }

\* A step has been started: its command was invoked, or it left its mark.
Started(step) ==
    \/ Completed(step)
    \/ step \in Commands /\ invocations[step] > 0
    \/ step = "popen" /\ sampler # "none"
    \/ step = "reorg" /\ (removed # {} \/ moved # {} \/ warned # {})

Exhausted(op) == failures[op] = S3_RETRY

\* C12: when a retry-wrapped operation has failed 5 times the run is aborted
\* with that operation's error: no later step of the pipeline is started,
\* the operation is not counted as done, and the process does not exit with
\* success.
C12_ExhaustionAborts ==
    \A op \in RetryOps :
        Exhausted(op) =>
            /\ pc \in {"raised", "exit"}
            /\ Escalated(op)
            /\ ~Completed(op)
            /\ \A later \in LaterSteps(op) : ~Started(later)
            /\ exit_status # "ok"

\* A run that ended after the raw-data sync failed five times.
C12_Witness ==
    /\ Exhausted("sync_bcl") /\ pc = "exit" /\ exit_status = "fail"
    /\ Completed("cp_sheet")

\* The storage path each retry-wrapped operation acts on.
ClaimedPath(op) ==
    CASE op = "cp_sheet"   -> "s3_sample_sheet_dir/sample_sheet_name"
      [] op = "sync_bcl"   -> "s3_input_dir/exp_id"
      [] op = "sync_fastq" -> "s3_output_dir/exp_id/rawdata"
      [] op = "cp_reports" -> "s3_report_dir/exp_id"

\* C14: the error raised when a retry-wrapped operation has exhausted its
\* attempts names the storage path the operation was acting on.
C14_ErrorNamesPath ==
    \A op \in RetryOps :
        Exhausted(op) =>
            \E k \in 1..Len(error) : error[k] = ClaimedPath(op)

\* A fastq.gz file that is not a read file <sample>_R1/_R2_001.fastq.gz.
NonMatching(name) == IsFastqGz(name) /\ ~IsReadFile(name)

\* C15 as claimed: with --star_structure, after the reorganization every
\* fastq.gz file that does not match the pattern is where it was and a
\* warning has been logged for it.
C15_NonMatchingLeft ==
    (Completed("reorg") /\ dargs.star_structure) =>
        \A n \in initial_files :
            NonMatching(n) => AtTop(n) /\ n \in warned

\* C15 as amended: with --star_structure, a fastq.gz file that does not
\* match the pattern is left where it was with a warning, and never makes
\* the reorganization raise; unless --skip_undetermined is set too and the
\* file begins with 'Undetermined': then it is deleted without a warning.
C15_NonMatchingLeftUnlessSkipped ==
    (pc # "idle" /\ dargs.star_structure) =>
        /\ Completed("reorg") =>
              \A n \in initial_files :
                  NonMatching(n) =>
                      IF dargs.skip_undetermined /\ StartsWithUndetermined(n)
                      THEN n \in removed /\ n \notin warned /\ ~Present(n)
                      ELSE AtTop(n) /\ n \in warned
        /\ \A n \in warned : NonMatching(n) /\ AtTop(n)
        /\ (Completed("glob") /\ ~Completed("reorg")
                /\ pc \in {"raised", "exit"}) =>
              /\ error = <<"OSError">>
              /\ \E f \in remaining :
                    \/ IsReadFile(f[2])
                    \/ dargs.skip_undetermined /\ StartsWithUndetermined(f[2])

\* A run with --star_structure that warned about SampleB_I1_001.fastq.gz,
\* left it in place and went on to upload the output.
C15_Witness ==
    /\ pc # "idle" /\ dargs.star_structure
    /\ <<"SampleB", I1>> \in warned
    /\ AtTop(<<"SampleB", I1>>)
    /\ Completed("sync_fastq")

\* C16: the steps happen in the order of the pipeline.  The output upload
\* starts only after the binary succeeded and the loop over the output
\* files ended, the binary only after the sample-sheet download and the
\* raw-data sync succeeded, the report upload only after the output upload
\* succeeded.
C16_StepOrder ==
    pc # "idle" =>
        /\ Started("sync_fastq") =>
              /\ Completed("bcl2fastq") /\ failures["bcl2fastq"] = 0
              /\ Completed("reorg") /\ remaining = {}
        /\ Started("bcl2fastq") =>
              Completed("cp_sheet") /\ Completed("sync_bcl")
        /\ Started("cp_reports") => Completed("sync_fastq")
        /\ succeeded = SubSeq(<<"setup">> \o PipelineOrder, 1, Len(succeeded))

\* A run that went through every step, with files to reorganize.
C16_Witness ==
    /\ pc = "exit" /\ Completed("cp_reports") /\ Completed("kill")
    /\ moved # {}

\* The number of steps of the pipeline still ahead at a position of main.
StepsAhead(at) ==
    IF at = "setup" THEN Len(PipelineOrder) + 1
    ELSE Len(PipelineOrder) + 1 - Position(at)

\* More than the steps a retry loop or the loop over the files can take.
LoopWeight == S3_RETRY + Cardinality(FileUniverse) + 1

\* A measure of the work a run has left: 0 exactly when the process has
\* exited.
Rank ==
    IF pc = "exit" THEN 0
    ELSE IF pc \in {"returned", "raised"} THEN 1
    ELSE 1 + LoopWeight * StepsAhead(pc)
           + (IF pc \in RetryOps THEN S3_RETRY - i ELSE 0)
           + (IF pc = "reorg" THEN Cardinality(remaining) ELSE 0)

\* C19: every run of the demux runner terminates when its commands return:
\* a run that has not exited can always take a step, every step decreases
\* a measure that is never negative, each retry-wrapped operation is invoked
\* at most 5 times and every other command at most once.
C19_Terminates ==
    /\ [](/\ Rank >= 0
          /\ (pc # "exit") => ENABLED NextDemux
          /\ \A op \in RetryOps : invocations[op] <= S3_RETRY
          /\ \A c \in Commands \ RetryOps : invocations[c] <= 1)
    /\ [][Rank' < Rank]_vars

\* A run that exited after every retry-wrapped operation before the report
\* upload used its fifth attempt, and the log upload ran.
C19_Witness ==
    /\ pc = "exit"
    /\ invocations["cp_sheet"] = S3_RETRY
    /\ invocations["sync_bcl"] = S3_RETRY
    /\ invocations["sync_fastq"] = S3_RETRY
    /\ invocations["cp_reports"] = S3_RETRY
    /\ invocations["bcl2fastq"] = 1
    /\ invocations["ls_check"] = 1
    /\ invocations["ls_reports"] = 1
    /\ invocations["log_cp"] = 1

----------------------------------------------------------------------------
(* Properties of both programs                                             *)

\* C13: the demultiplexing binary and the submission CLI are invoked at most
\* once per run; a failed demultiplexing run raises at once, so that no
\* reorganization, output upload or report upload follows it, and a failed
\* submission ends the launcher at once.
C13_ToolFailureNotRetried ==
    /\ pc # "idle" =>
          /\ invocations["bcl2fastq"] <= 1
          /\ failures["bcl2fastq"] > 0 =>
                /\ pc \in {"raised", "exit"}
                /\ error = <<"CalledProcessError", "bcl2fastq">>
                /\ \A later \in LaterSteps("bcl2fastq") : ~Started(later)
                /\ files = {} /\ dirs = {}
                /\ exit_status # "ok"
    /\ lpc # "idle" =>
          /\ Len(submitted) <= 1
          /\ lerror = "CalledProcessError: aegea" =>
                lpc = "exit" /\ Len(submitted) = 1

\* A run of the demux runner that ended after the binary failed.
C13_Witness ==
    /\ pc = "exit"
    /\ failures["bcl2fastq"] = 1
    /\ sampler = "running"

============================================================================
